---- MODULE Spec2Model ----
(***************************************************************************)
(* TikSpyder, src/databases: the SQLDatabaseManager (sql_manager.py) and   *)
(* the record normalizers and field extractors it uses (utilities.py).     *)
(*                                                                         *)
(* A Python str is a sequence of one-character strings.  None is the       *)
(* one-element sequence <<"None">>, which no str equals because "None" is  *)
(* not one character.  A dict is a function whose DOMAIN is the set of     *)
(* keys that are present.                                                  *)
(***************************************************************************)
EXTENDS Integers, Sequences, FiniteSets, TLC

None == <<"None">>

EmptyStr == <<>>

Digits == {"0", "1", "2", "3", "4", "5", "6", "7", "8", "9"}

\* mutant of Lower: the patterns are compiled without re.IGNORECASE
LowerExact(c) == c

\* re.IGNORECASE, for the letters the two patterns hold
Lower(c) ==
    CASE c = "L" -> "l" [] c = "I" -> "i" [] c = "K" -> "k" [] c = "E" -> "e"
      [] c = "S" -> "s" [] c = "C" -> "c" [] c = "O" -> "o" [] c = "M" -> "m"
      [] c = "N" -> "n" [] c = "T" -> "t" [] OTHER -> c

\* the literal tails of the two patterns
LikesWord == <<" ", "L", "i", "k", "e", "s">>

CommentsWord == <<" ", "C", "o", "m", "m", "e", "n", "t", "s">>

\* text[q..] starts with the literal word, case-insensitively
LiteralAt(text, q, word) ==
    /\ q + Len(word) - 1 <= Len(text)
    /\ \A j \in 1..Len(word) : Lower(text[q + j - 1]) = Lower(word[j])

\* s matches \d+(?:[\d,.]*\d+)?(?:[KM])? from its first to its last character
MatchesNumber(s) ==
    LET n == Len(s)
        body == IF n > 0 /\ Lower(s[n]) \in {"k", "m"} THEN SubSeq(s, 1, n - 1) ELSE s
    IN  /\ Len(body) >= 1
        /\ \A j \in 1..Len(body) : body[j] \in Digits \cup {",", "."}
        /\ body[1] \in Digits
        /\ body[Len(body)] \in Digits

\* pattern.search(text): group(1) of the leftmost match, or None
SearchGroup(text, word) ==
    LET starts == {p \in 1..Len(text) :
                     \E q \in (p + 1)..Len(text) :
                        /\ LiteralAt(text, q, word)
                        /\ MatchesNumber(SubSeq(text, p, q - 1))}
    IN  IF starts = {} THEN None
        ELSE LET p == CHOOSE x \in starts : \A y \in starts : x <= y
                 q == CHOOSE x \in (p + 1)..Len(text) :
                        /\ LiteralAt(text, x, word)
                        /\ MatchesNumber(SubSeq(text, p, x - 1))
             IN  SubSeq(text, p, q - 1)

extract_likes_comments(text) ==
    <<SearchGroup(text, LikesWord), SearchGroup(text, CommentsWord)>>

\* str.split(sep) for a one-character sep
RECURSIVE Split(_, _)
Split(s, sep) ==
    IF \A j \in 1..Len(s) : s[j] # sep THEN <<s>>
    ELSE LET k == CHOOSE x \in 1..Len(s) :
                     s[x] = sep /\ \A y \in 1..(x - 1) : s[y] # sep
         IN  <<SubSeq(s, 1, k - 1)>> \o Split(SubSeq(s, k + 1, Len(s)), sep)

\* mutant of Remove: str.replace(c, '', 1), the first occurrence only
RemoveFirst(s, c) ==
    IF \A j \in 1..Len(s) : s[j] # c THEN s
    ELSE LET k == CHOOSE x \in 1..Len(s) :
                     s[x] = c /\ \A y \in 1..(x - 1) : s[y] # c
         IN  SubSeq(s, 1, k - 1) \o SubSeq(s, k + 1, Len(s))

\* str.replace(c, '') for a one-character c
RECURSIVE Remove(_, _)
Remove(s, c) ==
    IF s = <<>> THEN <<>>
    ELSE (IF s[1] = c THEN <<>> ELSE <<s[1]>>) \o Remove(Tail(s), c)

\* sep.join(list)
RECURSIVE Join(_, _)
Join(list, sep) ==
    IF list = <<>> THEN <<>>
    ELSE IF Len(list) = 1 THEN list[1]
    ELSE list[1] \o sep \o Join(Tail(list), sep)

\* 'https://www.tiktok.com/@'
ProfilePrefix ==
    <<"h", "t", "t", "p", "s", ":", "/", "/", "w", "w", "w", ".", "t", "i", "k",
      "t", "o", "k", ".", "c", "o", "m", "/", "@">>

\* link.split('/')[3]: index 3 from 0 is the 4th segment; IndexError on fewer
AuthorIndex == 4

\* mutant of extract_author_post_id_raises: the link's shape is validated
extract_author_post_id_validates(link) ==
    \/ Len(Split(link, "/")) < 4
    \/ Split(link, "/")[4] = <<>>
    \/ Split(link, "/")[4][1] # "@"

extract_author_post_id_raises(link) == Len(Split(link, "/")) < AuthorIndex

extract_author_post_id(link) ==
    LET parts == Split(link, "/")
        author == Remove(parts[AuthorIndex], "@")
    IN  <<author, ProfilePrefix \o author, parts[Len(parts)]>>

\* mutant of Get: a missing key gives '' whatever the default
GetDefaultEmpty(entry, key, default) ==
    IF key \in DOMAIN entry THEN entry[key] ELSE EmptyStr

\* dict.get(key, default)
Get(entry, key, default) == IF key \in DOMAIN entry THEN entry[key] ELSE default

\* the snippet_highlighted_words column: ', '.join(list) if the list is
\* present and not empty, else None
HighlightedWords(entry) ==
    IF Get(entry, "snippet_highlighted_words", <<>>) # <<>>
    THEN Join(Get(entry, "snippet_highlighted_words", <<>>), <<",", " ">>)
    ELSE None

\* mutant of TitleSnippet: the f-string formats the two column values, whose
\* default is None
TitleSnippetOfColumns(entry) ==
    LET Format(v) == IF v = None THEN <<"N", "o", "n", "e">> ELSE v
    IN  Format(Get(entry, "title", None)) \o <<" ">>
          \o Format(Get(entry, "snippet", None))

\* f'{title} {snippet}'
TitleSnippet(entry) ==
    Get(entry, "title", EmptyStr) \o <<" ">> \o Get(entry, "snippet", EmptyStr)

\* the normalizers raise what extract_author_post_id raises
get_items_from_search_results_raises(entry) ==
    extract_author_post_id_raises(Get(entry, "link", EmptyStr))

get_items_from_search_results(entry) ==
    LET snippet == Get(entry, "snippet", EmptyStr)
        link == Get(entry, "link", EmptyStr)
        lc == extract_likes_comments(snippet)
        apl == extract_author_post_id(link)
    IN  << Get(entry, "source", None),
           Get(entry, "title", None),
           Get(entry, "snippet", None),
           Get(entry, "link", None),
           Get(entry, "thumbnail", None),
           Get(entry, "video_link", None),
           HighlightedWords(entry),
           Get(entry, "displayed_link", None),
           TitleSnippet(entry),
           lc[1],
           lc[2],
           apl[1],
           apl[2],
           apl[3] >>

get_items_from_images_results_raises(entry) ==
    extract_author_post_id_raises(Get(entry, "link", EmptyStr))

\* mutant of get_items_from_images_results: the link column is read from a
\* key the records do not hold
get_items_from_images_results_url(entry) ==
    LET link == Get(entry, "link", EmptyStr)
        apl == extract_author_post_id(link)
    IN  << Get(entry, "source", None),
           Get(entry, "title", None),
           Get(entry, "url", None),
           Get(entry, "thumbnail", None),
           apl[1],
           apl[2],
           apl[3] >>

get_items_from_images_results(entry) ==
    LET link == Get(entry, "link", EmptyStr)
        apl == extract_author_post_id(link)
    IN  << Get(entry, "source", None),
           Get(entry, "title", None),
           Get(entry, "link", None),
           Get(entry, "thumbnail", None),
           apl[1],
           apl[2],
           apl[3] >>

get_items_from_related_content(entry) ==
    << Get(entry, "source", None),
       Get(entry, "link", None),
       Get(entry, "thumbnail", None),
       Get(entry, "title", None) >>


(***************************************************************************)
(* The store: the SQLite file <output>/database.sql and the CSV files.     *)
(***************************************************************************)

\* fetch_all_data's list of tables, in its order
TableOrder == <<"query_search_results", "images_results", "related_content">>

Tables == {TableOrder[k] : k \in 1..Len(TableOrder)}

\* the columns of the three CREATE TABLE statements
Columns(t) ==
    CASE t = "query_search_results" ->
           <<"record_id", "source", "title", "snippet", "link", "thumbnail",
             "video_link", "snippet_highlighted_words", "displayed_link",
             "title_snippet", "likes", "comments", "author", "link_to_author",
             "post_id">>
      [] t = "images_results" ->
           <<"record_id", "source", "title", "link", "thumbnail", "author",
             "link_to_author", "post_id">>
      [] t = "related_content" ->
           <<"record_id", "source", "link", "thumbnail", "title">>

\* the column lists of the three INSERT statements
InsertColumns(t) == Tail(Columns(t))

CreateMethod(t) ==
    CASE t = "query_search_results" -> "create_search_results_table"
      [] t = "images_results" -> "create_images_results_table"
      [] t = "related_content" -> "create_related_content_table"

InsertMethod(t) ==
    CASE t = "query_search_results" -> "insert_search_results"
      [] t = "images_results" -> "insert_images_results"
      [] t = "related_content" -> "insert_related_content"

CreateMethods == {CreateMethod(t) : t \in Tables}

InsertMethods == {InsertMethod(t) : t \in Tables}

\* the table a create_ or insert_ method works on
TableOf(method) == CHOOSE t \in Tables : method \in {CreateMethod(t), InsertMethod(t)}

\* the normalizer each insert method hands its entries to
Raises(t, entry) ==
    CASE t = "query_search_results" -> get_items_from_search_results_raises(entry)
      [] t = "images_results" -> get_items_from_images_results_raises(entry)
      [] t = "related_content" -> FALSE

Items(t, entry) ==
    CASE t = "query_search_results" -> get_items_from_search_results(entry)
      [] t = "images_results" -> get_items_from_images_results(entry)
      [] t = "related_content" -> get_items_from_related_content(entry)

\* mutant of CreateTableIfNotExists: CREATE TABLE t (...), an Error when t exists
CreateTable(sch, t) ==
    IF t \in DOMAIN sch
    THEN [error |-> TRUE, schema |-> sch]
    ELSE [error |-> FALSE, schema |-> sch @@ (t :> Columns(t))]

\* mutant of CreateTableIfNotExists: the statement is never executed
CreateTableSkipped(sch, t) == [error |-> FALSE, schema |-> sch]

\* CREATE TABLE IF NOT EXISTS t (...): the schema after the statement, and
\* whether the statement raised Error
CreateTableIfNotExists(sch, t) ==
    IF t \in DOMAIN sch
    THEN [error |-> FALSE, schema |-> sch]
    ELSE [error |-> FALSE, schema |-> sch @@ (t :> Columns(t))]

\* mutant of Catches: no except clause
CatchesNothing(e) == FALSE

\* "except Error as e" catches sqlite3.Error and its subclasses, nothing else
Catches(e) == e = "Error"

\* the messages the methods print
ConnectFailed == "An error occurred"

NoConnection == "Failed to create the database connection."

CreateFailed == "An error occurred"

InsertFailed == "An error occurred while inserting data"

FetchFailed == "An error occurred while fetching data"

CollectFailed == "An error occurred while inserting data"

\* the methods with an else branch that prints NoConnection
HasElse(method) == method \in CreateMethods \cup InsertMethods


(***************************************************************************)
(* Inputs: the raw records the callers hand to the insert methods.         *)
(***************************************************************************)

\* 'h://t/@a/v/1'
LinkA == <<"h", ":", "/", "/", "t", "/", "@", "a", "/", "v", "/", "1">>

\* 'h://t/@b/v/2'
LinkB == <<"h", ":", "/", "/", "t", "/", "@", "b", "/", "v", "/", "2">>

\* 'h://t/@r/v/9'
LinkR == <<"h", ":", "/", "/", "t", "/", "@", "r", "/", "v", "/", "9">>

\* 't/@a/1': three segments
LinkShort == <<"t", "/", "@", "a", "/", "1">>

\* 'h://t/a/1': five segments, none of them an '@' name
LinkNoAt == <<"h", ":", "/", "/", "t", "/", "a", "/", "1">>

SearchFull ==
    [source |-> <<"g">>, title |-> <<"T">>,
     snippet |-> <<"5", " ", "L", "i", "k", "e", "s">>, link |-> LinkA,
     thumbnail |-> <<"p">>, video_link |-> <<"m">>,
     snippet_highlighted_words |-> << <<"T">>, <<"x">> >>,
     displayed_link |-> <<"d">>]

SearchSparse == [link |-> LinkB]

SearchMalformed == [title |-> <<"T">>, link |-> LinkShort]

ImageFull ==
    [source |-> <<"g">>, title |-> <<"T">>, link |-> LinkA, thumbnail |-> <<"p">>]

\* no link key at all: the normalizer splits ''
ImageMalformed == [title |-> <<"T">>]

RelatedFull ==
    [source |-> <<"g">>, link |-> LinkR, thumbnail |-> <<"p">>, title |-> <<"T">>]

Entries(t) ==
    CASE t = "query_search_results" -> {SearchFull, SearchSparse, SearchMalformed}
      [] t = "images_results" -> {ImageFull, ImageMalformed}
      [] t = "related_content" -> {RelatedFull}

\* the longest batch a caller hands over
MaxBatch == 3

\* the most rows the store holds, all tables together
MaxRows == 3

Batches(t) == UNION {[1..n -> Entries(t)] : n \in 0..MaxBatch}

\* the entries of a batch that normalize
WellFormed(t, batch) == {k \in 1..Len(batch) : ~Raises(t, batch[k])}

(***************************************************************************)
(* State.                                                                  *)
(***************************************************************************)
VARIABLES
    schema,       \* the tables of database.sql: table name -> its columns
    rows,         \* the committed rows of each table, in record_id order
    autoincrement,\* sqlite_sequence: the last record_id each table gave out
    files,        \* the CSV files under output: table name -> lines
    open,         \* the number of open connections
    constructed,  \* whether __init__ has returned a manager
    pc,           \* "idle", "init", "try", "finally", "return"
    op,           \* the method that is running
    init_step,    \* in __init__: which of its three calls, 4 after them; else 0
    conn,         \* the method's local conn: "None", "open", "closed"
    data,         \* the method's argument
    i,            \* the position of the for loop
    stdout,       \* what the running public call has printed
    exc,          \* the exception leaving the running call, or "none"
    ret,          \* the list get_collected_videos returns
    schema0,      \* history: schema when the running public call began
    rows0,        \* history: rows when the running public call began
    files0,       \* history: files when the running public call began
    log,          \* history: the outcome of each loop iteration of the call
    ingested      \* history: the entry each committed row of a table came from

vars ==
    <<schema, rows, autoincrement, files, open, constructed, pc, op, init_step,
      conn, data, i, stdout, exc, ret, schema0, rows0, files0, log, ingested>>

history == <<schema0, rows0, files0>>

store == <<schema, rows, autoincrement, files, ingested>>

TotalRows == Len(rows[TableOrder[1]]) + Len(rows[TableOrder[2]]) + Len(rows[TableOrder[3]])

Init ==
    /\ schema = <<>>
    /\ rows = [t \in Tables |-> <<>>]
    /\ autoincrement = [t \in Tables |-> 0]
    /\ files = <<>>
    /\ open = 0
    /\ constructed = FALSE
    /\ pc = "idle"
    /\ op = "none"
    /\ init_step = 0
    /\ conn = "None"
    /\ data = <<>>
    /\ i = 1
    /\ stdout = <<>>
    /\ exc = "none"
    /\ ret = <<>>
    /\ schema0 = schema
    /\ rows0 = rows
    /\ files0 = files
    /\ log = <<>>
    /\ ingested = [t \in Tables |-> <<>>]


(***************************************************************************)
(* The steps of the methods.                                               *)
(***************************************************************************)

\* where control goes when a method is over: back into __init__, which
\* calls the next create method and returns after the third, or to the caller
Leave ==
    IF init_step = 0 THEN
        /\ pc' = "return"
        /\ UNCHANGED <<init_step, constructed>>
    ELSE IF init_step < Len(TableOrder) THEN
        /\ pc' = "init"
        /\ init_step' = init_step + 1
        /\ UNCHANGED constructed
    ELSE
        /\ pc' = "return"
        /\ init_step' = init_step + 1
        /\ constructed' = TRUE

\* mutant of create_sql_connection: the Error of sqlite3.connect is not caught
create_sql_connection_raises(connected) ==
    IF connected
    THEN [conn |-> "open", exc |-> "none", out |-> <<>>]
    ELSE [conn |-> "None", exc |-> "Error", out |-> <<>>]

\* create_sql_connection: the connection, or None and a printed message when
\* sqlite3.connect raises Error
create_sql_connection(connected) ==
    IF connected
    THEN [conn |-> "open", exc |-> "none", out |-> <<>>]
    ELSE IF Catches("Error")
    THEN [conn |-> "None", exc |-> "none", out |-> <<ConnectFailed>>]
    ELSE [conn |-> "None", exc |-> "Error", out |-> <<>>]

\* the first lines of every method: conn = self.create_sql_connection();
\* "if conn is not None: ... else: print"
Enter(method, batch, connected) ==
    LET c == create_sql_connection(connected) IN
    /\ op' = method
    /\ data' = batch
    /\ i' = 1
    /\ conn' = c.conn
    /\ exc' = c.exc
    /\ UNCHANGED <<store, ret, history, log>>
    /\ IF c.conn = "open"
       THEN /\ open' = open + 1
            /\ pc' = "try"
            /\ UNCHANGED <<stdout, init_step, constructed>>
       ELSE /\ open' = open
            /\ stdout' = stdout \o c.out
                 \o (IF c.exc = "none" /\ HasElse(method) THEN <<NoConnection>> ELSE <<>>)
            /\ Leave

\* SQLDatabaseManager(output)
Construct ==
    /\ pc = "idle"
    /\ pc' = "init"
    /\ op' = "__init__"
    /\ init_step' = 1
    /\ UNCHANGED <<store, open, constructed, conn, data, i, stdout, exc, ret,
                   history, log>>

\* __init__ calls the three create methods in turn
InitCall ==
    /\ pc = "init"
    /\ \E connected \in BOOLEAN :
          Enter(CreateMethod(TableOrder[init_step]), <<>>, connected)

\* a caller calls one of the create methods
CallCreate ==
    /\ pc = "idle"
    /\ constructed
    /\ \E t \in Tables, connected \in BOOLEAN :
          Enter(CreateMethod(t), <<>>, connected)

\* cursor.execute(CREATE TABLE IF NOT EXISTS ...); conn.commit().  Error is
\* raised by the statement or by a fault of the store (disk, lock)
CreateTry ==
    /\ pc = "try"
    /\ op \in CreateMethods
    /\ \E fault \in BOOLEAN :
          LET done == CreateTableIfNotExists(schema, TableOf(op)) IN
          IF fault \/ done.error
          THEN /\ IF Catches("Error")
                  THEN stdout' = Append(stdout, CreateFailed) /\ UNCHANGED exc
                  ELSE exc' = "Error" /\ UNCHANGED stdout
               /\ log' = Append(log, IF fault THEN "fault" ELSE "Error")
               /\ UNCHANGED schema
          ELSE /\ schema' = done.schema
               /\ log' = Append(log, "ok")
               /\ UNCHANGED <<stdout, exc>>
    /\ pc' = "finally"
    /\ UNCHANGED <<rows, autoincrement, files, open, constructed, op, init_step,
                   conn, data, i, ret, history, ingested>>

\* a caller calls one of the insert methods with a batch
CallInsert ==
    /\ pc = "idle"
    /\ constructed
    /\ \E t \in Tables, connected \in BOOLEAN :
          \E batch \in Batches(t) :
             /\ TotalRows + Cardinality(WellFormed(t, batch)) <= MaxRows
             /\ Enter(InsertMethod(t), batch, connected)

\* the row INSERT adds: AUTOINCREMENT gives it the next record_id
NewRow(t, entry) ==
    [record_id |-> autoincrement[t] + 1, values |-> Items(t, entry)]

\* mutant of Commit: the INSERT is executed twice before the commit
CommitTwice(rs, row) == Append(Append(rs, row), row)

\* mutant of Commit: no commit, the row is lost when the connection closes
CommitMissing(rs, row) == rs

\* conn.commit() after each execute: the row is in the table from then on
Commit(rs, row) == Append(rs, row)

\* mutant of AfterError: the try statement is inside the loop
AfterErrorContinue(k) == [pc |-> "try", i |-> k + 1]

\* the try statement encloses the for loop: an exception in iteration k
\* ends the loop
AfterError(k) == [pc |-> "finally", i |-> k]

\* mutant of AfterClose: one transaction for the batch, rolled back
AfterCloseRollback(now, before) == before

\* what conn.close() leaves of the table when the loop was left with an
\* exception: every row committed so far (now), nothing of the failed one
AfterClose(now, before) == now

\* one iteration of "for entry in data": normalize, execute, commit
InsertTry ==
    /\ pc = "try"
    /\ op \in InsertMethods
    /\ LET t == TableOf(op) IN
       IF i > Len(data) THEN
           /\ pc' = "finally"
           /\ UNCHANGED <<rows, autoincrement, i, stdout, exc, log, ingested>>
       ELSE IF Raises(t, data[i]) THEN
           /\ IF Catches("IndexError")
              THEN stdout' = Append(stdout, InsertFailed) /\ UNCHANGED exc
              ELSE exc' = "IndexError" /\ UNCHANGED stdout
           /\ log' = Append(log, "raise")
           /\ pc' = AfterError(i).pc
           /\ i' = AfterError(i).i
           /\ rows' = [rows EXCEPT ![t] = AfterClose(@, rows0[t])]
           /\ UNCHANGED <<autoincrement, ingested>>
       ELSE \E written \in BOOLEAN :
           /\ t \notin DOMAIN schema => ~written
           /\ IF written
              THEN /\ rows' = [rows EXCEPT ![t] = Commit(@, NewRow(t, data[i]))]
                   /\ autoincrement' = [autoincrement EXCEPT ![t] = @ + 1]
                   /\ ingested' = [ingested EXCEPT ![t] = Append(@, data[i])]
                   /\ i' = i + 1
                   /\ log' = Append(log, "ok")
                   /\ UNCHANGED <<pc, stdout, exc>>
              ELSE /\ IF Catches("Error")
                      THEN stdout' = Append(stdout, InsertFailed) /\ UNCHANGED exc
                      ELSE exc' = "Error" /\ UNCHANGED stdout
                   /\ log' = Append(log, "Error")
                   /\ pc' = AfterError(i).pc
                   /\ i' = AfterError(i).i
                   /\ rows' = [rows EXCEPT ![t] = AfterClose(@, rows0[t])]
                   /\ UNCHANGED <<autoincrement, ingested>>
    /\ UNCHANGED <<schema, files, open, constructed, op, init_step, conn, data,
                   ret, history>>

\* a caller calls fetch_all_data
CallFetch ==
    /\ pc = "idle"
    /\ constructed
    /\ \E connected \in BOOLEAN : Enter("fetch_all_data", <<>>, connected)

DigitChar(d) ==
    CASE d = 0 -> "0" [] d = 1 -> "1" [] d = 2 -> "2" [] d = 3 -> "3"
      [] d = 4 -> "4" [] d = 5 -> "5" [] d = 6 -> "6" [] d = 7 -> "7"
      [] d = 8 -> "8" [] d = 9 -> "9"

\* an integer as to_csv writes it
RECURSIVE ToDecimal(_)
ToDecimal(n) ==
    IF n < 10 THEN <<DigitChar(n)>>
    ELSE ToDecimal(n \div 10) \o <<DigitChar(n % 10)>>

\* mutant of CsvCell: to_csv(na_rep='nan')
CsvCellNan(v) == IF v = None THEN <<"n", "a", "n">> ELSE v

\* a cell as to_csv writes it: a missing value becomes the empty string
CsvCell(v) == IF v = None THEN EmptyStr ELSE v

\* df.to_csv(save_path, index=False, encoding='utf-8') of SELECT * FROM t:
\* a header line and one line per row, record_id first
ToCsv(t, rs) ==
    [header |-> Columns(t),
     lines |-> [k \in 1..Len(rs) |->
                  <<ToDecimal(rs[k].record_id)>>
                    \o [j \in 1..Len(rs[k].values) |-> CsvCell(rs[k].values[j])]]]

\* mutant of AfterReadError: the try statement is inside the loop
AfterReadErrorContinue(k) == [pc |-> "try", i |-> k + 1]

\* the try statement encloses the for loop over the tables: an exception
\* at table k ends the loop
AfterReadError(k) == [pc |-> "finally", i |-> k]

\* one iteration of "for t in tables": read_sql_query, to_csv.  The read
\* raises sqlite3.Error or an exception of another class (pandas'
\* DatabaseError)
FetchTry ==
    /\ pc = "try"
    /\ op = "fetch_all_data"
    /\ IF i > Len(TableOrder) THEN
           /\ pc' = "finally"
           /\ UNCHANGED <<files, i, stdout, exc, log>>
       ELSE \E outcome \in {"ok", "Error", "DatabaseError"} :
           /\ TableOrder[i] \notin DOMAIN schema => outcome # "ok"
           /\ IF outcome = "ok" THEN
                  /\ files' = (TableOrder[i] :> ToCsv(TableOrder[i], rows[TableOrder[i]]))
                                @@ files
                  /\ i' = i + 1
                  /\ log' = Append(log, "ok")
                  /\ UNCHANGED <<pc, stdout, exc>>
              ELSE
                  /\ IF Catches(outcome)
                     THEN stdout' = Append(stdout, FetchFailed) /\ UNCHANGED exc
                     ELSE exc' = outcome /\ UNCHANGED stdout
                  /\ log' = Append(log, IF outcome = "Error" THEN "Error" ELSE "raise")
                  /\ pc' = AfterReadError(i).pc
                  /\ i' = AfterReadError(i).i
                  /\ UNCHANGED files
    /\ UNCHANGED <<schema, rows, autoincrement, open, constructed, op,
                   init_step, conn, data, ret, history, ingested>>

\* a caller calls get_collected_videos
CallCollect ==
    /\ pc = "idle"
    /\ constructed
    /\ \E connected \in BOOLEAN : Enter("get_collected_videos", <<>>, connected)

\* the position of a column in the values of a row
RECURSIVE IndexOf(_, _)
IndexOf(seq, x) == IF seq[1] = x THEN 1 ELSE 1 + IndexOf(Tail(seq), x)

\* SELECT link FROM t
SelectLink(t, rs) ==
    {rs[k].values[IndexOf(InsertColumns(t), "link")] : k \in 1..Len(rs)}

\* mutant of UnionLinks: the second SELECT reads related_content
UnionLinksWrongTable(rs) ==
    SelectLink("query_search_results", rs["query_search_results"])
      \cup SelectLink("related_content", rs["related_content"])

\* SELECT link FROM query_search_results UNION SELECT link FROM images_results
UnionLinks(rs) ==
    SelectLink("query_search_results", rs["query_search_results"])
      \cup SelectLink("images_results", rs["images_results"])

\* cursor.fetchall() of a UNION: each member once, in an order SQL leaves open
Fetchall(S) ==
    {s \in [1..Cardinality(S) -> S] : \A x \in S : \E k \in 1..Cardinality(S) : s[k] = x}

\* cursor.execute(SELECT ... UNION ...); data = [i[0] for i in fetchall()]
CollectTry ==
    /\ pc = "try"
    /\ op = "get_collected_videos"
    /\ \E read \in BOOLEAN :
          /\ ~({"query_search_results", "images_results"} \subseteq DOMAIN schema)
                => ~read
          /\ IF read
             THEN /\ \E list \in Fetchall(UnionLinks(rows)) : ret' = list
                  /\ log' = Append(log, "ok")
                  /\ UNCHANGED <<stdout, exc>>
             ELSE /\ IF Catches("Error")
                     THEN stdout' = Append(stdout, CollectFailed) /\ UNCHANGED exc
                     ELSE exc' = "Error" /\ UNCHANGED stdout
                  /\ log' = Append(log, "Error")
                  /\ UNCHANGED ret
    /\ pc' = "finally"
    /\ UNCHANGED <<store, open, constructed, op, init_step, conn, data, i,
                   history>>

\* mutant of Close: the connection is left open
CloseMissing(n) == n

\* conn.close()
Close(n) == n - 1

\* finally: conn.close(); then the method is over
Finally ==
    /\ pc = "finally"
    /\ conn' = "closed"
    /\ open' = Close(open)
    /\ Leave
    /\ UNCHANGED <<store, op, data, i, stdout, exc, ret, history, log>>

\* the public call is over: its caller has the result or the exception
Return ==
    /\ pc = "return"
    /\ pc' = "idle"
    /\ op' = "none"
    /\ init_step' = 0
    /\ conn' = "None"
    /\ data' = <<>>
    /\ i' = 1
    /\ stdout' = <<>>
    /\ exc' = "none"
    /\ ret' = <<>>
    /\ schema0' = schema
    /\ rows0' = rows
    /\ files0' = files
    /\ log' = <<>>
    /\ UNCHANGED <<store, open, constructed>>

Next ==
    \/ Construct
    \/ InitCall
    \/ CallCreate
    \/ CreateTry
    \/ CallInsert
    \/ InsertTry
    \/ CallFetch
    \/ FetchTry
    \/ CallCollect
    \/ CollectTry
    \/ Finally
    \/ Return

Spec == Init /\ [][Next]_vars

(***************************************************************************)
(* The normalizers on their own: one raw record in, one tuple out.         *)
(***************************************************************************)

\* the keys each normalizer looks up
Keys(t) ==
    CASE t = "query_search_results" ->
           {"source", "title", "snippet", "link", "thumbnail", "video_link",
            "snippet_highlighted_words", "displayed_link"}
      [] t = "images_results" -> {"source", "title", "link", "thumbnail"}
      [] t = "related_content" -> {"source", "link", "thumbnail", "title"}

Normalizer(t) ==
    CASE t = "query_search_results" -> "get_items_from_search_results"
      [] t = "images_results" -> "get_items_from_images_results"
      [] t = "related_content" -> "get_items_from_related_content"

Normalizers == {Normalizer(t) : t \in Tables}

NormalizerTable(name) == CHOOSE t \in Tables : Normalizer(t) = name

\* the values a key holds when it is present
SampleValues ==
    [source : {<<"g">>},
     title : {<<"T">>, EmptyStr},
     snippet : {<<"5", " ", "L", "i", "k", "e", "s">>,
                <<"2", " ", "c", "o", "m", "m", "e", "n", "t", "s">>, EmptyStr},
     link : {LinkA, LinkB, LinkShort, LinkNoAt},
     thumbnail : {<<"p">>},
     video_link : {<<"m">>},
     snippet_highlighted_words : { << <<"T">>, <<"x">> >>, << <<"T">> >>, <<>> },
     displayed_link : {<<"d">>}]

\* every record that holds a subset of the keys
RawRecords(t) ==
    {[k \in present |-> sample[k]] : present \in SUBSET Keys(t), sample \in SampleValues}

NormInit ==
    /\ schema = <<>>
    /\ rows = [t \in Tables |-> <<>>]
    /\ autoincrement = [t \in Tables |-> 0]
    /\ files = <<>>
    /\ open = 0
    /\ constructed = FALSE
    /\ pc = "normalize"
    /\ \E t \in Tables : \E entry \in RawRecords(t) :
          /\ op = Normalizer(t)
          /\ data = <<entry>>
    /\ init_step = 0
    /\ conn = "None"
    /\ i = 1
    /\ stdout = <<>>
    /\ exc = "none"
    /\ ret = <<>>
    /\ schema0 = schema
    /\ rows0 = rows
    /\ files0 = files
    /\ log = <<>>
    /\ ingested = [t \in Tables |-> <<>>]

\* the normalizer returns its tuple or raises
Normalize ==
    /\ pc = "normalize"
    /\ pc' = "return"
    /\ IF Raises(NormalizerTable(op), data[1])
       THEN exc' = "IndexError" /\ UNCHANGED ret
       ELSE ret' = Items(NormalizerTable(op), data[1]) /\ UNCHANGED exc
    /\ UNCHANGED <<store, open, constructed, op, init_step, conn, data, i,
                   stdout, history, log>>

NormNext == Normalize

SpecNormalize == NormInit /\ [][NormNext]_vars

(***************************************************************************)
(* extract_author_post_id on its own: one link in, one tuple out.          *)
(***************************************************************************)

\* 'https://www.tiktok.com/@jane.doe/video/12345'
ExampleLink ==
    <<"h", "t", "t", "p", "s", ":", "/", "/", "w", "w", "w", ".", "t", "i",
      "k", "t", "o", "k", ".", "c", "o", "m", "/", "@", "j", "a", "n", "e",
      ".", "d", "o", "e", "/", "v", "i", "d", "e", "o", "/", "1", "2", "3",
      "4", "5">>

\* the characters the function tells apart: the separator, the '@', any other
LinkAlphabet == {"/", "@", "a"}

MaxLinkLen == 6

\* every link of at most MaxLinkLen characters, and the example
Links ==
    UNION {[1..n -> LinkAlphabet] : n \in 0..MaxLinkLen} \cup {ExampleLink}

LinkInit ==
    /\ schema = <<>>
    /\ rows = [t \in Tables |-> <<>>]
    /\ autoincrement = [t \in Tables |-> 0]
    /\ files = <<>>
    /\ open = 0
    /\ constructed = FALSE
    /\ pc = "extract"
    /\ op = "extract_author_post_id"
    /\ \E link \in Links : data = <<link>>
    /\ init_step = 0
    /\ conn = "None"
    /\ i = 1
    /\ stdout = <<>>
    /\ exc = "none"
    /\ ret = <<>>
    /\ schema0 = schema
    /\ rows0 = rows
    /\ files0 = files
    /\ log = <<>>
    /\ ingested = [t \in Tables |-> <<>>]

\* the function returns its tuple or raises
ExtractLink ==
    /\ pc = "extract"
    /\ pc' = "return"
    /\ IF extract_author_post_id_raises(data[1])
       THEN exc' = "IndexError" /\ UNCHANGED ret
       ELSE ret' = extract_author_post_id(data[1]) /\ UNCHANGED exc
    /\ UNCHANGED <<store, open, constructed, op, init_step, conn, data, i,
                   stdout, history, log>>

LinkNext == ExtractLink

SpecLink == LinkInit /\ [][LinkNext]_vars

(***************************************************************************)
(* extract_likes_comments on its own: one text in, one pair out.           *)
(***************************************************************************)

\* '1.2K Likes, 340 Comments'
ExampleText ==
    <<"1", ".", "2", "K", " ",
      "L", "i", "k", "e", "s", ",", " ",
      "3", "4", "0", " ", "C", "o", "m", "m", "e", "n", "t", "s">>

\* 'no stats here'
ExampleTextWithout == <<"n", "o", " ", "s", "t", "a", "t", "s", " ", "h", "e", "r", "e">>

\* the pieces the texts are made of: what a number is made of, another
\* character, and the two words in several cases
TextChunks ==
    {<<"1">>, <<",">>, <<"K">>, <<"m">>, <<"x">>, <<" ", "L", "i", "k", "e", "s">>,
     <<" ", "l", "I", "K", "E", "S">>, <<" ", "C", "o", "m", "m", "e", "n", "t", "s">>,
     <<" ", "C", "O", "M", "M", "E", "N", "T", "S">>}

MaxChunks == 4

RECURSIVE Concat(_)
Concat(chunks) ==
    IF chunks = <<>> THEN <<>> ELSE chunks[1] \o Concat(Tail(chunks))

\* every text of at most MaxChunks pieces, and the two examples
Texts ==
    {Concat(chunks) : chunks \in UNION {[1..n -> TextChunks] : n \in 0..MaxChunks}}
      \cup {ExampleText, ExampleTextWithout}

TextInit ==
    /\ schema = <<>>
    /\ rows = [t \in Tables |-> <<>>]
    /\ autoincrement = [t \in Tables |-> 0]
    /\ files = <<>>
    /\ open = 0
    /\ constructed = FALSE
    /\ pc = "extract"
    /\ op = "extract_likes_comments"
    /\ \E text \in Texts : data = <<text>>
    /\ init_step = 0
    /\ conn = "None"
    /\ i = 1
    /\ stdout = <<>>
    /\ exc = "none"
    /\ ret = <<>>
    /\ schema0 = schema
    /\ rows0 = rows
    /\ files0 = files
    /\ log = <<>>
    /\ ingested = [t \in Tables |-> <<>>]

\* the function returns its pair
ExtractText ==
    /\ pc = "extract"
    /\ pc' = "return"
    /\ ret' = extract_likes_comments(data[1])
    /\ UNCHANGED <<store, open, constructed, op, init_step, conn, data, i,
                   stdout, exc, history, log>>

TextNext == ExtractText

SpecText == TextInit /\ [][TextNext]_vars


(***************************************************************************)
(* Properties.                                                             *)
(***************************************************************************)

\* the message is among what the running call printed
Reported(msg) == \E k \in 1..Len(stdout) : stdout[k] = msg

\* the tuples of the first n entries of a batch
Normalized(t, batch, n) == [k \in 1..n |-> Items(t, batch[k])]

\* the row values of a table, without the record_ids
ValuesOf(rs) == [k \in 1..Len(rs) |-> rs[k].values]

\* a table's columns in a schema, a table's file among the files
SchemaAt(sch, t) == IF t \in DOMAIN sch THEN <<sch[t]>> ELSE <<>>

FileAt(fs, t) == IF t \in DOMAIN fs THEN <<fs[t]>> ELSE <<>>

\* an insert method has ended and its caller has control again
InsertEnded == pc = "return" /\ op \in InsertMethods

\* the positions of a batch whose link is malformed
Malformed(t, batch) == {k \in 1..Len(batch) : Raises(t, batch[k])}

C2_NothingPropagates == pc = "return" => exc = "none"

\* C2, amended: a failure to open the connection and an sqlite3 Error of a
\* statement end as a printed diagnostic and a normal return; the only
\* exceptions that reach a caller are the one normalization raises on a
\* malformed link, from insert_search_results and insert_images_results, and
\* one of another class raised by the read of fetch_all_data.
C2_OnlyDatabaseErrorsAreCaught ==
    pc = "return" =>
        /\ conn = "None" => exc = "none" /\ Reported(ConnectFailed)
        /\ \A k \in 1..Len(log) :
              log[k] \in {"Error", "fault"} => exc = "none" /\ stdout # <<>>
        /\ exc # "none" =>
              /\ Len(log) >= 1
              /\ log[Len(log)] = "raise"
              /\ \/ /\ exc = "IndexError"
                    /\ op \in {"insert_search_results", "insert_images_results"}
                    /\ Len(Split(Get(data[Len(log)], "link", EmptyStr), "/")) < 4
                 \/ /\ exc = "DatabaseError"
                    /\ op = "fetch_all_data"

C2_Witness ==
    /\ pc = "return"
    /\ op = "insert_related_content"
    /\ log = <<"ok", "Error">>
    /\ exc = "none"

\* C3, as the claim states it: after insert_search_results or
\* insert_images_results on a batch with exactly one malformed link (and no
\* write error), the table holds all the well-formed records of the batch or
\* none of them.
C3_AllOrNothing ==
    (/\ pc = "return"
     /\ op \in {"insert_search_results", "insert_images_results"}
     /\ conn = "closed"
     /\ Cardinality(Malformed(TableOf(op), data)) = 1
     /\ \A k \in 1..Len(log) : log[k] # "Error")
    => LET t == TableOf(op)
           added == SubSeq(ValuesOf(rows[t]), Len(rows0[t]) + 1, Len(rows[t]))
       IN  \/ added = <<>>
           \/ /\ Len(added) = Len(data) - 1
              /\ \A k \in 1..Len(data) :
                    ~Raises(t, data[k]) => \E j \in 1..Len(added) : added[j] = Items(t, data[k])

\* C3, amended: after such a call the table holds, of the batch, exactly the
\* records before the malformed one (fewer only if a write error ended the
\* batch earlier) and none of the records after it, and the normalization
\* error reaches the caller.
C3_PrefixBeforeMalformed ==
    (/\ pc = "return"
     /\ op \in {"insert_search_results", "insert_images_results"}
     /\ conn = "closed"
     /\ Cardinality(Malformed(TableOf(op), data)) = 1)
    => LET t == TableOf(op)
           m == CHOOSE k \in 1..Len(data) : Raises(t, data[k])
       IN  /\ \E j \in 0..(m - 1) :
                 ValuesOf(rows[t]) = ValuesOf(rows0[t]) \o Normalized(t, data, j)
           /\ (\A k \in 1..Len(log) : log[k] # "Error") =>
                 /\ ValuesOf(rows[t]) = ValuesOf(rows0[t]) \o Normalized(t, data, m - 1)
                 /\ exc = "IndexError"

C3_Witness ==
    /\ pc = "return"
    /\ op = "insert_search_results"
    /\ Len(data) = 3
    /\ Malformed(TableOf(op), data) = {2}
    /\ log = <<"ok", "raise">>
    /\ Len(rows[TableOf(op)]) = Len(rows0[TableOf(op)]) + 1

\* C4: every row an insert method inserted successfully is in the table from
\* then on, whatever happens to the rows after it: during the call and when
\* it has ended, the table holds the rows it held before the call followed
\* by the tuples of the rows inserted so far.
C4_CommittedRowsStay ==
    (pc \in {"try", "finally", "return"} /\ op \in InsertMethods) =>
        LET t == TableOf(op) IN
        /\ Len(rows[t]) >= Len(rows0[t])
        /\ SubSeq(rows[t], 1, Len(rows0[t])) = rows0[t]
        /\ \A k \in 1..Len(log) :
              log[k] = "ok" =>
                 /\ Len(rows[t]) >= Len(rows0[t]) + k
                 /\ rows[t][Len(rows0[t]) + k].values = Items(t, data[k])

C4_Witness ==
    /\ InsertEnded
    /\ Len(log) >= 2
    /\ log[1] = "ok"
    /\ log[Len(log)] # "ok"
    /\ Len(rows[TableOf(op)]) > Len(rows0[TableOf(op)])

\* C5: at most one connection is open at any time, none is open between two
\* public calls or between the calls __init__ makes, and a method that got
\* a connection has closed it when it is over, on every path.
C5_ConnectionClosed ==
    /\ open \in {0, 1}
    /\ pc \in {"idle", "init", "return"} => open = 0
    /\ pc \in {"init", "return"} /\ conn # "None" => conn = "closed"
    /\ pc \in {"try", "finally"} => conn = "open" /\ open = 1

C5_Witness ==
    /\ pc = "return"
    /\ exc = "IndexError"
    /\ Len(log) >= 2
    /\ conn = "closed"
    /\ open = 0

\* C6: a method whose connection cannot be opened does nothing: it leaves
\* the schema, the rows and the files as they were, a create or insert
\* method reports it, fetch_all_data writes no file, get_collected_videos
\* returns the empty list, and the method returns normally.
C6_NoConnectionNoEffect ==
    (pc \in {"init", "return"} /\ conn = "None" /\ op \notin {"none", "__init__"}) =>
        /\ exc = "none"
        /\ rows = rows0
        /\ files = files0
        /\ ret = <<>>
        /\ log = <<>> \/ init_step # 0
        /\ init_step = 0 => schema = schema0
        /\ op \in CreateMethods \cup InsertMethods =>
              /\ SchemaAt(schema, TableOf(op)) = SchemaAt(schema0, TableOf(op))
              /\ Len(stdout) >= 2
              /\ stdout[Len(stdout) - 1] = ConnectFailed
              /\ stdout[Len(stdout)] = NoConnection

C6_Witness ==
    /\ pc = "return"
    /\ op = "get_collected_videos"
    /\ conn = "None"
    /\ rows["query_search_results"] # <<>>
    /\ ret = <<>>

C8_DistinctLinksOfTwoTables ==
    (pc = "return" /\ op = "get_collected_videos" /\ log = <<"ok">>) =>
        LET search == rows["query_search_results"]
            images == rows["images_results"]
            related == rows["related_content"]
            links == {search[k].values[4] : k \in 1..Len(search)}
                       \cup {images[k].values[3] : k \in 1..Len(images)}
        IN  /\ {ret[k] : k \in 1..Len(ret)} = links
            /\ \A j, k \in 1..Len(ret) : ret[j] = ret[k] => j = k
            /\ \A k \in 1..Len(related) :
                  related[k].values[2] \notin links =>
                     \A j \in 1..Len(ret) : ret[j] # related[k].values[2]

C8_Witness ==
    /\ pc = "return"
    /\ op = "get_collected_videos"
    /\ log = <<"ok">>
    /\ Len(rows["query_search_results"]) = 1
    /\ Len(rows["images_results"]) = 1
    /\ Len(rows["related_content"]) = 1
    /\ rows["query_search_results"][1].values[4] = rows["images_results"][1].values[3]
    /\ Len(ret) = 1

\* C9: a create method called on a store that has the three tables, alone
\* or from __init__, raises nothing and leaves the schema and the rows of
\* every table as they were; without a fault of the store it reports nothing.
C9_EnsureIdempotent ==
    (pc = "return" /\ op \in CreateMethods /\ Tables \subseteq DOMAIN schema0) =>
        /\ schema = schema0
        /\ rows = rows0
        /\ exc = "none"
        /\ (\A k \in 1..Len(log) : log[k] # "fault") =>
              \A k \in 1..Len(log) : log[k] = "ok"
        /\ (\A k \in 1..Len(log) : log[k] = "ok") /\ ~Reported(NoConnection) =>
              stdout = <<>>

C9_Witness ==
    /\ pc = "return"
    /\ op \in CreateMethods
    /\ init_step = Len(TableOrder) + 1
    /\ Tables \subseteq DOMAIN schema0
    /\ rows0["query_search_results"] # <<>>
    /\ log = <<"ok", "ok", "ok">>

SearchExported ==
    /\ pc = "return"
    /\ op = "fetch_all_data"
    /\ \E k \in 1..Len(log) : TableOrder[k] = "query_search_results" /\ log[k] = "ok"

\* C11, as the claim states it: after the records were inserted into the
\* empty search table and the tables were exported, the file has one data row
\* per inserted record, in insertion order, and the 14 fields after the
\* record_id of row k equal the tuple the normalizer returns for record k.
C11_FieldsEqualTuple ==
    SearchExported =>
        LET recs == ingested["query_search_results"]
            lines == files["query_search_results"].lines
        IN  /\ Len(lines) = Len(recs)
            /\ \A k \in 1..Len(recs) :
                  Tail(lines[k]) = get_items_from_search_results(recs[k])

\* C11, amended: one data row per inserted record, in insertion order; row k
\* starts with its record_id k in decimal, and each of its 14 other fields is
\* the field of the normalizer's tuple for record k, a null field written as
\* the empty cell.
C11_FieldsAreTupleAsCells ==
    SearchExported =>
        LET recs == ingested["query_search_results"]
            lines == files["query_search_results"].lines
        IN  /\ Len(lines) = Len(recs)
            /\ \A k \in 1..Len(recs) :
                  LET tuple == get_items_from_search_results(recs[k]) IN
                  /\ Len(lines[k]) = 15
                  /\ lines[k][1] = <<DigitChar(k)>>
                  /\ \A j \in 1..14 :
                        lines[k][j + 1] = (IF tuple[j] = None THEN <<>> ELSE tuple[j])

C11_Witness ==
    /\ SearchExported
    /\ ingested["query_search_results"] = <<SearchSparse, SearchFull>>
    /\ Len(files["query_search_results"].lines) = 2
    /\ files["query_search_results"].lines[1][2] = <<>>

\* a search or image normalizer has ended
LinkNormalizerEnded ==
    /\ pc = "return"
    /\ op \in {"get_items_from_search_results", "get_items_from_images_results"}

\* the link the normalizer read: entry.get('link', '')
LinkRead == IF "link" \in DOMAIN data[1] THEN data[1]["link"] ELSE <<>>

\* the link has the shape <scheme>//<host>/@<author>/.../<post_id>: four
\* segments or more, the one at index 3 an '@' name
Conforms(link) ==
    \E k \in 1..Len(link) :
        /\ link[k] = "/"
        /\ Cardinality({j \in 1..(k - 1) : link[j] = "/"}) = 2
        /\ k + 1 <= Len(link)
        /\ link[k + 1] = "@"

\* C12, as the claim states it: when the link does not conform to the shape
\* https://<host>/@<author>/.../<post_id>, the search and image normalizers
\* fail with an error instead of returning a tuple, also for a link of four
\* segments or more without an '@' author segment.
C12_NonConformingLinkFails ==
    (LinkNormalizerEnded /\ ~Conforms(LinkRead)) => exc # "none"

\* C12, amended: the search and image normalizers fail exactly when the link
\* has fewer than four '/'-segments (fewer than three '/'); every other link,
\* conforming or not, gives a tuple whose author holds no '@' and whose
\* link_to_author is the profile prefix followed by that author.
C12_ShortLinkFails ==
    LinkNormalizerEnded =>
        LET slashes == Cardinality({k \in 1..Len(LinkRead) : LinkRead[k] = "/"})
            n == Len(ret)
        IN  /\ exc = "IndexError" <=> slashes < 3
            /\ exc = "none" <=> slashes >= 3
            /\ exc = "none" =>
                  /\ n = Len(InsertColumns(NormalizerTable(op)))
                  /\ \A k \in 1..Len(ret[n - 2]) : ret[n - 2][k] # "@"
                  /\ ret[n - 1] = ProfilePrefix \o ret[n - 2]
                  /\ ret[n] # None

C12_Witness ==
    /\ LinkNormalizerEnded
    /\ op = "get_items_from_images_results"
    /\ LinkRead = LinkNoAt
    /\ ~Conforms(LinkRead)
    /\ exc = "none"
    /\ ret[5] = <<"a">>
    /\ ret[7] = <<"1">>

\* the position of the n-th '/' of a link; 0 before the first one, one past
\* the end after the last one
SlashAt(link, n) ==
    IF n = 0 THEN 0
    ELSE IF n > Cardinality({k \in 1..Len(link) : link[k] = "/"}) THEN Len(link) + 1
    ELSE CHOOSE k \in 1..Len(link) :
             /\ link[k] = "/"
             /\ Cardinality({j \in 1..(k - 1) : link[j] = "/"}) = n - 1

\* the '/'-delimited segment at an index, counted from 0
Segment(link, index) ==
    SubSeq(link, SlashAt(link, index) + 1, SlashAt(link, index + 1) - 1)

\* the last '/'-delimited segment
LastSegment(link) ==
    Segment(link, Cardinality({k \in 1..Len(link) : link[k] = "/"}))

NotAt(c) == c # "@"

\* extract_author_post_id has ended on a link of four segments or more
LongLinkExtracted ==
    /\ pc = "return"
    /\ op = "extract_author_post_id"
    /\ Cardinality({k \in 1..Len(data[1]) : data[1][k] = "/"}) >= 3

\* what the example link gives
ExampleGiven ==
    (pc = "return" /\ op = "extract_author_post_id" /\ data[1] = ExampleLink)
    => /\ exc = "none"
       /\ ret[1] = <<"j", "a", "n", "e", ".", "d", "o", "e">>
       /\ ret[2] =
            <<"h", "t", "t", "p", "s", ":", "/", "/", "w", "w", "w", ".",
              "t", "i", "k", "t", "o", "k", ".", "c", "o", "m", "/", "@",
              "j", "a", "n", "e", ".", "d", "o", "e">>
       /\ ret[3] = <<"1", "2", "3", "4", "5">>

\* C13, as the claim states it: for a link of four segments or more the
\* author is the segment at index 3 with its leading '@' removed, the
\* link_to_author is the profile prefix followed by the author, the post_id
\* is the last segment; the example link gives the example tuple.
C13_LeadingAtRemoved ==
    /\ ExampleGiven
    /\ LongLinkExtracted =>
          LET segment == Segment(data[1], 3) IN
          /\ exc = "none"
          /\ ret[1] = (IF segment # <<>> /\ segment[1] = "@"
                       THEN Tail(segment) ELSE segment)
          /\ ret[2] = ProfilePrefix \o ret[1]
          /\ ret[3] = LastSegment(data[1])

\* C13, amended: for a link of four segments or more the author is the
\* segment at index 3 with every '@' removed, the link_to_author is the
\* profile prefix followed by the author, the post_id is the last segment;
\* the example link gives the example tuple.
C13_EveryAtRemoved ==
    /\ ExampleGiven
    /\ LongLinkExtracted =>
          /\ exc = "none"
          /\ ret[1] = SelectSeq(Segment(data[1], 3), NotAt)
          /\ ret[2] = ProfilePrefix \o ret[1]
          /\ ret[3] = LastSegment(data[1])

C13_Witness ==
    /\ LongLinkExtracted
    /\ data[1] = <<"/", "/", "/", "@", "a", "@">>
    /\ ret[1] = <<"a">>
    /\ ret[3] = <<"@", "a", "@">>

\* the character is the lower-case letter, in either case
IsLetter(c, letter) ==
    \/ c = letter
    \/ <<c, letter>> \in {<<"L", "l">>, <<"I", "i">>, <<"K", "k">>, <<"E", "e">>,
                          <<"S", "s">>, <<"C", "c">>, <<"O", "o">>, <<"M", "m">>,
                          <<"N", "n">>, <<"T", "t">>}

\* ' likes' and ' comments'
LikesLetters == <<" ", "l", "i", "k", "e", "s">>

CommentsLetters == <<" ", "c", "o", "m", "m", "e", "n", "t", "s">>

\* the word stands at position q of the text, in any case
WordAt(text, q, letters) ==
    /\ q >= 1
    /\ q + Len(letters) - 1 <= Len(text)
    /\ \A j \in 1..Len(letters) : IsLetter(text[q + j - 1], letters[j])

\* a number: digits, with separators and decimal points between its first
\* and its last digit, and a K or M suffix or none
IsNumber(s) ==
    /\ s # <<>>
    /\ s[1] \in Digits
    /\ \A j \in 1..(Len(s) - 1) : s[j] \in Digits \cup {",", "."}
    /\ \/ s[Len(s)] \in Digits
       \/ /\ s[Len(s)] \in {"K", "M", "k", "m"}
          /\ Len(s) >= 2
          /\ s[Len(s) - 1] \in Digits

\* a number ends right before the word somewhere in the text: a digit, or a
\* digit and a suffix, stands before the word
NumberBeforeWord(text, letters) ==
    \E q \in 2..Len(text) :
        /\ WordAt(text, q, letters)
        /\ \/ text[q - 1] \in Digits
           \/ /\ text[q - 1] \in {"K", "M", "k", "m"}
              /\ q >= 3
              /\ text[q - 2] \in Digits

\* found is the first number of the text that the word follows, verbatim
FirstNumberBeforeWord(text, letters, found) ==
    \E p \in 1..Len(text) : \E q \in (p + 1)..Len(text) :
        /\ found = SubSeq(text, p, q - 1)
        /\ IsNumber(found)
        /\ WordAt(text, q, letters)
        /\ \A p2 \in 1..(p - 1) : \A q2 \in (p2 + 1)..Len(text) :
              ~(IsNumber(SubSeq(text, p2, q2 - 1)) /\ WordAt(text, q2, letters))

TextExtracted == pc = "return" /\ op = "extract_likes_comments"

\* C14: extract_likes_comments returns a pair; its first element is the
\* first number followed by ' Likes' in any case, verbatim, or null when no
\* number is followed by ' Likes'; its second element is the same for
\* ' Comments'; either one is found or not whatever the other is; the text
\* '1.2K Likes, 340 Comments' gives ('1.2K', '340') and 'no stats here'
\* gives (null, null).
C14_FirstNumbersVerbatim ==
    TextExtracted =>
        /\ exc = "none"
        /\ Len(ret) = 2
        /\ IF NumberBeforeWord(data[1], LikesLetters)
           THEN FirstNumberBeforeWord(data[1], LikesLetters, ret[1])
           ELSE ret[1] = None
        /\ IF NumberBeforeWord(data[1], CommentsLetters)
           THEN FirstNumberBeforeWord(data[1], CommentsLetters, ret[2])
           ELSE ret[2] = None
        /\ data[1] = ExampleText =>
              ret = << <<"1", ".", "2", "K">>, <<"3", "4", "0">> >>
        /\ data[1] = ExampleTextWithout => ret = <<None, None>>

C14_Witness ==
    /\ TextExtracted
    /\ data[1] = <<"x", "1", "m", " ", "l", "I", "K", "E", "S">>
    /\ ret = << <<"1", "m">>, None >>

\* the four outcomes: both, only likes, only comments, neither
C14_WitnessOnlyComments ==
    /\ TextExtracted
    /\ ret[1] = None
    /\ ret[2] = <<"1", "K">>

\* __init__ has returned
ConstructEnded == pc = "return" /\ op \in CreateMethods /\ init_step > Len(TableOrder)

\* C15, as the claim states it: once the manager is constructed all three
\* tables exist, also when a create call of the construction could not
\* connect or could not create its table, so that no insert runs against a
\* missing table.
C15_AllTablesOnceConstructed ==
    constructed => \A t \in Tables : t \in DOMAIN schema

\* C15, amended: a construction whose three create calls connected and
\* executed without error ends with all three tables, and a table once
\* created stays; rows are only ever in a table that exists; after a
\* construction in which a create call failed, an insert into the missing
\* table ends with no row added and its first write reported as failed.
C15_TablesExistUnlessCreateFailed ==
    /\ (ConstructEnded /\ log = <<"ok", "ok", "ok">>)
          => \A t \in Tables : t \in DOMAIN schema
    /\ \A t \in DOMAIN schema0 : t \in DOMAIN schema
    /\ \A t \in Tables : rows[t] # <<>> => t \in DOMAIN schema
    /\ (InsertEnded /\ TableOf(op) \notin DOMAIN schema)
          => /\ rows = rows0
             /\ \A k \in 1..Len(log) : log[k] # "ok"
             /\ (conn # "None" /\ data # <<>> /\ ~Raises(TableOf(op), data[1]))
                   => (log = <<"Error">> /\ Reported(InsertFailed))

C15_Witness ==
    /\ InsertEnded
    /\ constructed
    /\ op = "insert_search_results"
    /\ "query_search_results" \notin DOMAIN schema
    /\ "images_results" \in DOMAIN schema
    /\ log = <<"Error">>
    /\ Reported(InsertFailed)
    /\ rows = rows0

\* C16: in every step, each table keeps the rows it has, as they are and in
\* their order, and gets rows only at its end and only in a step of its own
\* insert method: the create methods, fetch_all_data, get_collected_videos
\* and the inserts of the other tables change none of its rows.
C16_RowsOnlyAdded ==
    [][\A t \in Tables :
          /\ Len(rows[t]) <= Len(rows'[t])
          /\ SubSeq(rows'[t], 1, Len(rows[t])) = rows[t]
          /\ rows'[t] # rows[t] => (op \in InsertMethods /\ op = InsertMethod(t))]_vars

C16_Witness ==
    /\ InsertEnded
    /\ op = "insert_images_results"
    /\ Len(rows["images_results"]) = Len(rows0["images_results"]) + 1
    /\ rows0["images_results"] # <<>>
    /\ rows["query_search_results"] # <<>>
    /\ rows["query_search_results"] = rows0["query_search_results"]
    /\ rows["related_content"] = rows0["related_content"]

\* the search normalizer has returned a tuple
SearchNormalized ==
    /\ pc = "return"
    /\ op = "get_items_from_search_results"
    /\ exc = "none"

\* C17: in every tuple the search normalizer returns, title_snippet is the
\* title, one space and the snippet, an absent title or snippet counting as
\* the empty string; it is never None, also when the title and snippet
\* columns of the tuple are None.
C17_TitleSnippetConcatenated ==
    SearchNormalized =>
        LET entry == data[1]
            title == IF "title" \in DOMAIN entry THEN entry["title"] ELSE <<>>
            snippet == IF "snippet" \in DOMAIN entry THEN entry["snippet"] ELSE <<>>
        IN  /\ ret[9] = title \o <<" ">> \o snippet
            /\ ret[9] # None
            /\ Columns("query_search_results")[10] = "title_snippet"

C17_Witness ==
    /\ SearchNormalized
    /\ "title" \notin DOMAIN data[1]
    /\ "snippet" \notin DOMAIN data[1]
    /\ ret[2] = None
    /\ ret[3] = None
    /\ ret[9] = <<" ">>

\* the rows the ended insert method added to its table
Added ==
    SubSeq(rows[TableOf(op)], Len(rows0[TableOf(op)]) + 1, Len(rows[TableOf(op)]))

\* C18: when an insert method ends, by returning or with an exception, the
\* rows it added to its table are the tuples of the first n entries of the
\* batch, for some n, one row per entry and in batch order, after the rows
\* the table had; the record_ids of the table increase in that order.
C18_AddedRowsArePrefix ==
    InsertEnded =>
        LET t == TableOf(op)
            n == Len(Added)
        IN  /\ SubSeq(rows[t], 1, Len(rows0[t])) = rows0[t]
            /\ n <= Len(data)
            /\ \A k \in 1..n :
                  /\ ~Raises(t, data[k])
                  /\ Added[k].values = Items(t, data[k])
            /\ \A j \in 1..Len(rows[t]) : \A k \in 1..Len(rows[t]) :
                  j < k => rows[t][j].record_id < rows[t][k].record_id
            /\ \A u \in Tables \ {t} : rows[u] = rows0[u]

C18_Witness ==
    /\ InsertEnded
    /\ exc = "IndexError"
    /\ Len(data) = 3
    /\ Len(Added) = 1
    /\ rows0[TableOf(op)] # <<>>
    /\ ~Raises(TableOf(op), data[3])

\* the value a row holds in a column
Field(t, row, column) ==
    row.values[CHOOSE j \in 1..Len(InsertColumns(t)) : InsertColumns(t)[j] = column]

\* C19: every row of the search table and of the images table holds a link
\* that is not None and has four '/'-segments or more, and an author, a
\* link_to_author and a post_id that are not None; every link
\* get_collected_videos returns is neither None nor empty.
C19_RowsHoldDerivableLinks ==
    /\ \A t \in {"query_search_results", "images_results"} :
          \A k \in 1..Len(rows[t]) :
             LET link == Field(t, rows[t][k], "link") IN
             /\ link # None
             /\ Cardinality({j \in 1..Len(link) : link[j] = "/"}) >= 3
             /\ Field(t, rows[t][k], "author") # None
             /\ Field(t, rows[t][k], "link_to_author") # None
             /\ Field(t, rows[t][k], "post_id") # None
    /\ (pc = "return" /\ op = "get_collected_videos")
          => \A k \in 1..Len(ret) : ret[k] # None /\ ret[k] # <<>>

C19_Witness ==
    /\ pc = "return"
    /\ op = "get_collected_videos"
    /\ Len(ret) = 2
    /\ rows["query_search_results"] # <<>>
    /\ rows["images_results"] # <<>>
    /\ \E k \in 1..Len(ingested["query_search_results"]) :
          ingested["query_search_results"][k] = SearchSparse

====
